---- MODULE Spec2Model ----
\* A model of scripts/update_linode_fw.py: the script resolves a firewall by
\* label (paginated listing), fetches its rules, strips the entries labelled
\* "allow-github-actions" from both directions, appends a freshly built rule
\* to outbound and PUTs both directions back.  The remote service (listing,
\* stored rule set, response statuses) is the environment.
EXTENDS Integers, Sequences, FiniteSets, TLC

\* ---------------------------------------------------------------- bounds
MaxPages == 3       \* pages of the remote listing / largest 'pages' reported
MaxPageLen == 2     \* firewalls on one page of the listing
MaxRules == 2       \* entries of one direction of the prior remote rule set
MaxRuns == 2        \* invocations of the script

\* ------------------------------------------------------ program constants
FIREWALL_LABEL == "rpc-infra"
ALLOWED_PORTS == "80,443"
MARKER_LABEL == "allow-github-actions"
HTTP_OK == 200
HTTP_ERROR == 500
\* Python's None, the default of dict.get(); differs from every label used.
None == "<None>"

GITHUB_IPS ==
  << "20.26.156.215/32", "4.208.26.197/32", "4.225.11.194/32",
     "20.217.135.5/32", "20.199.39.232/32", "20.29.134.23/32",
     "20.233.83.145/32", "20.175.192.147/32", "20.200.245.247/32",
     "20.27.177.113/32", "20.207.73.82/32", "4.228.31.150/32",
     "4.237.22.38/32", "20.87.245.0/32", "20.205.243.166/32",
     "20.201.28.151/32", "20.26.156.210/32", "4.208.26.200/32",
     "4.225.11.201/32", "20.217.135.0/32", "20.199.39.228/32",
     "20.29.134.17/32", "20.233.83.146/32", "20.175.192.149/32",
     "20.200.245.245/32", "20.27.177.116/32", "20.207.73.85/32",
     "4.228.31.149/32", "4.237.22.34/32", "20.87.245.6/32",
     "20.205.243.168/32", "20.201.28.148/32", "143.55.64.0/20",
     "140.82.112.0/20", "185.199.108.0/22", "192.30.252.0/22" >>

new_rule ==
  [ label |-> MARKER_LABEL,
    action |-> "ACCEPT",
    protocol |-> "TCP",
    ports |-> ALLOWED_PORTS,
    addresses |-> [ipv4 |-> GITHUB_IPS] ]

\* ------------------------------------------------------------ environment
\* Firewalls the account may hold.  IDs are unique; two carry the target label
\* so that "first match" is observable.
Firewalls ==
  { [id |-> 11, label |-> FIREWALL_LABEL],
    [id |-> 12, label |-> FIREWALL_LABEL],
    [id |-> 13, label |-> "web"] }

\* Rules a prior remote rule set may hold: an unrelated labelled rule, a stale
\* rule carrying the marker label, and a rule with no 'label' key at all.
KeepRule ==
  [ label |-> "keep", action |-> "DROP", protocol |-> "TCP",
    ports |-> "22", addresses |-> [ipv4 |-> <<"0.0.0.0/0">>] ]
StaleRule ==
  [ label |-> MARKER_LABEL, action |-> "ACCEPT", protocol |-> "TCP",
    ports |-> "22", addresses |-> [ipv4 |-> <<"10.0.0.0/8">>] ]
NoLabelRule ==
  [ action |-> "DROP", protocol |-> "UDP",
    ports |-> "53", addresses |-> [ipv4 |-> <<"0.0.0.0/0">>] ]
Rules == {KeepRule, StaleRule, NoLabelRule}

SeqsUpTo(S, n) == UNION { [1..k -> S] : k \in 0..n }

RECURSIVE Flatten(_)
Flatten(pages) ==
  IF pages = <<>> THEN <<>> ELSE Head(pages) \o Flatten(Tail(pages))

Distinct(s) == \A i, j \in 1..Len(s) : i # j => s[i] # s[j]

\* Listings of 1..MaxPages pages, at most MaxPageLen firewalls a page, no
\* firewall listed twice.
RECURSIVE ListingsOf(_)
ListingsOf(n) ==
  IF n = 0 THEN {<<>>}
  ELSE UNION { { Append(l, p) :
                   p \in { q \in SeqsUpTo(Firewalls, MaxPageLen) :
                             Distinct(Flatten(l) \o q) } } :
               l \in ListingsOf(n - 1) }
Listings == UNION { ListingsOf(n) : n \in 1..MaxPages }

\* Rule sets the remote may store: each direction a sequence of rules, or the
\* key absent from the JSON body.
Remotes ==
  UNION { [keys -> SeqsUpTo(Rules, MaxRules)] :
            keys \in SUBSET {"inbound", "outbound"} }

\* A few listings and a few rule sets, for the specification that varies the
\* other one.
FewListings ==
  { << <<[id |-> 11, label |-> FIREWALL_LABEL]>> >>,
    << <<[id |-> 13, label |-> "web"]>>,
       <<[id |-> 12, label |-> FIREWALL_LABEL]>> >>,
    << <<[id |-> 13, label |-> "web"]>> >> }
FewRemotes ==
  { [inbound |-> <<KeepRule>>, outbound |-> <<StaleRule>>],
    [inbound |-> <<StaleRule, NoLabelRule>>, outbound |-> <<>>] }

VARIABLES
  listing,        \* remote: the pages of the firewall listing
  remote,         \* remote: the stored rule set of the target firewall
  pc,             \* position of the script: lookup, fetch, transform, submit, done
  page,           \* get_firewall_id_by_label: page
  fw_id,          \* main: fw_id
  current_rules,  \* main: current_rules
  inbound,        \* main: inbound
  outbound,       \* main: outbound
  exit_code,      \* process exit code, -1 while the process runs
  reqs,           \* history: requests issued by this run, in order
  resps,          \* history: resps[i] is the response to reqs[i]
  submitted,      \* history: payloads of the successful PUTs, over all runs
  run             \* number of the current invocation

vars ==
  << listing, remote, pc, page, fw_id, current_rules, inbound, outbound,
     exit_code, reqs, resps, submitted, run >>

\* ---------------------------------------------------------- pure helpers
\* dict.get(k, default)
JsonGet(d, k, default) == IF k \in DOMAIN d THEN d[k] ELSE default

Min(S) == CHOOSE x \in S : \A y \in S : x <= y

\* the label is not compared: every firewall of the page matches
Matches_any_label(data, label) == { i \in 1..Len(data) : TRUE }

\* for fw in data: if fw['label'] == label
Matches(data, label) == { i \in 1..Len(data) : data[i].label = label }

FirstMatchId(data, label) == data[Min(Matches(data, label))].id

\* if page + 1 >= data.get('pages', 1): break
LastPage_early(p, data) == p + 1 >= JsonGet(data, "pages", 1)

\* if page > data.get('pages', 1): break
LastPage_late(p, data) == p > JsonGet(data, "pages", 1)

\* if page >= data.get('pages', 1): break
LastPage(p, data) == p >= JsonGet(data, "pages", 1)

\* r.get('label') != "allow-github-actions"
NotMarker(r) == JsonGet(r, "label", None) # MARKER_LABEL

\* the inbound collection passed on unfiltered
FilterInbound_unfiltered(rs) == rs

\* inbound = [r for r in inbound if r.get('label') != "allow-github-actions"]
FilterInbound(rs) == SelectSeq(rs, NotMarker)

\* the test inverted: the marker entries are the ones kept
IsMarker(r) == JsonGet(r, "label", None) = MARKER_LABEL
FilterOutbound_inverted(rs) == SelectSeq(rs, IsMarker)

\* the outbound collection passed on unfiltered
FilterOutbound_unfiltered(rs) == rs

\* outbound = [r for r in outbound if r.get('label') != "allow-github-actions"]
FilterOutbound(rs) == SelectSeq(rs, NotMarker)

\* outbound.insert(0, new_rule)
AppendNewRule_prepend(rs) == <<new_rule>> \o rs

\* outbound.append(new_rule)
AppendNewRule(rs) == Append(rs, new_rule)

\* payload of update_firewall_rules
Payload(inb, outb) == [inbound |-> inb, outbound |-> outb]

\* --------------------------------------------------------- the responses
\* What the listing endpoint can answer to a request for page p: an error, or
\* a body with the data of that page (no 'data' beyond the listing) and a
\* 'pages' count, which may be absent.
ListBodies(p) ==
  LET withData == IF p <= Len(listing)
                  THEN { [status |-> HTTP_OK, data |-> listing[p]] }
                  ELSE { [status |-> HTTP_OK] }
  IN  withData \cup
      { IF "data" \in DOMAIN b
        THEN [status |-> HTTP_OK, data |-> b.data, pages |-> n]
        ELSE [status |-> HTTP_OK, pages |-> n] :
          b \in withData, n \in 1..MaxPages }

ListResponses(p) == { [status |-> HTTP_ERROR] } \cup ListBodies(p)

Statuses == {HTTP_OK, HTTP_ERROR}

\* ------------------------------------------------------------------ Init
InitWith(ls, rs) ==
  /\ listing \in ls
  /\ remote \in rs
  /\ pc = "lookup"
  /\ page = 1
  /\ fw_id = 0
  /\ current_rules = <<>>
  /\ inbound = <<>>
  /\ outbound = <<>>
  /\ exit_code = -1
  /\ reqs = <<>>
  /\ resps = <<>>
  /\ submitted = <<>>
  /\ run = 1

Init == InitWith(Listings, FewRemotes)

RulesInit == InitWith(FewListings, Remotes)

\* --------------------------------------------------------------- actions
\* The loop iteration with the exit after the loop missing: the function
\* returns without an ID and main goes on.
get_firewall_id_by_label_no_exit(resp) ==
  /\ pc = "lookup"
  /\ reqs' = Append(reqs, [kind |-> "list", arg |-> page])
  /\ resps' = Append(resps, resp)
  /\ IF resp.status # HTTP_OK
     THEN /\ pc' = "done"
          /\ exit_code' = 1
          /\ UNCHANGED <<page, fw_id>>
     ELSE IF Matches(JsonGet(resp, "data", <<>>), FIREWALL_LABEL) # {}
     THEN /\ fw_id' = FirstMatchId(JsonGet(resp, "data", <<>>), FIREWALL_LABEL)
          /\ pc' = "fetch"
          /\ UNCHANGED <<page, exit_code>>
     ELSE IF LastPage(page, resp)
     THEN /\ pc' = "fetch"
          /\ UNCHANGED <<page, fw_id, exit_code>>
     ELSE /\ page' = page + 1
          /\ UNCHANGED <<pc, fw_id, exit_code>>
  /\ UNCHANGED <<listing, remote, current_rules, inbound, outbound,
                 submitted, run>>

\* One iteration of the while loop of get_firewall_id_by_label.
get_firewall_id_by_label(resp) ==
  /\ pc = "lookup"
  /\ reqs' = Append(reqs, [kind |-> "list", arg |-> page])
  /\ resps' = Append(resps, resp)
  /\ IF resp.status # HTTP_OK
     THEN /\ pc' = "done"
          /\ exit_code' = 1
          /\ UNCHANGED <<page, fw_id>>
     ELSE IF Matches(JsonGet(resp, "data", <<>>), FIREWALL_LABEL) # {}
     THEN /\ fw_id' = FirstMatchId(JsonGet(resp, "data", <<>>), FIREWALL_LABEL)
          /\ pc' = "fetch"
          /\ UNCHANGED <<page, exit_code>>
     ELSE IF LastPage(page, resp)
     THEN /\ pc' = "done"
          /\ exit_code' = 1
          /\ UNCHANGED <<page, fw_id>>
     ELSE /\ page' = page + 1
          /\ UNCHANGED <<pc, fw_id, exit_code>>
  /\ UNCHANGED <<listing, remote, current_rules, inbound, outbound,
                 submitted, run>>

\* The GET with the exit on a non-success status missing: the error body,
\* which has neither 'inbound' nor 'outbound', is returned.
get_current_rules_no_exit(status) ==
  /\ pc = "fetch"
  /\ reqs' = Append(reqs, [kind |-> "get", arg |-> fw_id])
  /\ resps' = Append(resps, [status |-> status])
  /\ current_rules' = IF status # HTTP_OK THEN [errors |-> <<>>] ELSE remote
  /\ pc' = "transform"
  /\ UNCHANGED <<listing, remote, page, fw_id, inbound, outbound, exit_code,
                 submitted, run>>

\* get_current_rules(fw_id): one GET of the rules endpoint.
get_current_rules(status) ==
  /\ pc = "fetch"
  /\ reqs' = Append(reqs, [kind |-> "get", arg |-> fw_id])
  /\ resps' = Append(resps, [status |-> status])
  /\ IF status # HTTP_OK
     THEN /\ pc' = "done"
          /\ exit_code' = 1
          /\ UNCHANGED current_rules
     ELSE /\ current_rules' = remote
          /\ pc' = "transform"
          /\ UNCHANGED exit_code
  /\ UNCHANGED <<listing, remote, page, fw_id, inbound, outbound,
                 submitted, run>>

\* main, between the two calls: filter both directions, append the new rule.
main_transform ==
  /\ pc = "transform"
  /\ inbound' = FilterInbound(JsonGet(current_rules, "inbound", <<>>))
  /\ outbound' =
       AppendNewRule(FilterOutbound(JsonGet(current_rules, "outbound", <<>>)))
  /\ pc' = "submit"
  /\ UNCHANGED <<listing, remote, page, fw_id, current_rules, exit_code,
                 reqs, resps, submitted, run>>

\* The PUT tried again after a non-success status.
update_firewall_rules_retry(status) ==
  /\ pc = "submit"
  /\ reqs' = Append(reqs, [kind |-> "put", arg |-> fw_id,
                           body |-> Payload(inbound, outbound)])
  /\ resps' = Append(resps, [status |-> status])
  /\ IF status = HTTP_OK
     THEN /\ remote' = Payload(inbound, outbound)
          /\ submitted' = Append(submitted, Payload(inbound, outbound))
          /\ exit_code' = 0
          /\ pc' = "done"
     ELSE UNCHANGED <<remote, submitted, exit_code, pc>>
  /\ UNCHANGED <<listing, page, fw_id, current_rules, inbound, outbound, run>>

\* update_firewall_rules(fw_id, inbound, outbound): one PUT; the service
\* stores a successful PUT as the whole rule set.  main returns after it.
update_firewall_rules(status) ==
  /\ pc = "submit"
  /\ reqs' = Append(reqs, [kind |-> "put", arg |-> fw_id,
                           body |-> Payload(inbound, outbound)])
  /\ resps' = Append(resps, [status |-> status])
  /\ IF status = HTTP_OK
     THEN /\ remote' = Payload(inbound, outbound)
          /\ submitted' = Append(submitted, Payload(inbound, outbound))
          /\ exit_code' = 0
     ELSE /\ exit_code' = 1
          /\ UNCHANGED <<remote, submitted>>
  /\ pc' = "done"
  /\ UNCHANGED <<listing, page, fw_id, current_rules, inbound, outbound, run>>

\* The script is invoked again after a successful run.  (After a failed run
\* the remote is as it was, so a rerun starts in a state Init already holds.)
run_main ==
  /\ pc = "done"
  /\ exit_code = 0
  /\ run < MaxRuns
  /\ run' = run + 1
  /\ pc' = "lookup"
  /\ page' = 1
  /\ fw_id' = 0
  /\ current_rules' = <<>>
  /\ inbound' = <<>>
  /\ outbound' = <<>>
  /\ exit_code' = -1
  /\ reqs' = <<>>
  /\ resps' = <<>>
  /\ UNCHANGED <<listing, remote, submitted>>

ListStep == \E resp \in ListResponses(page) : get_firewall_id_by_label(resp)
FetchStep == \E status \in Statuses : get_current_rules(status)
SubmitStep == \E status \in Statuses : update_firewall_rules(status)

Next == ListStep \/ FetchStep \/ main_transform \/ SubmitStep \/ run_main

Spec == Init /\ [][Next]_vars

RulesSpec == RulesInit /\ [][Next]_vars

\* The calls block until they complete and main runs them one after the
\* other, so a step that can be taken is eventually taken.
FairSpec ==
  /\ Spec
  /\ WF_vars(ListStep)
  /\ WF_vars(FetchStep)
  /\ WF_vars(main_transform)
  /\ WF_vars(SubmitStep)

\* ------------------------------------------------- vocabulary of the claims
ReqIdx(kind) == { i \in 1..Len(reqs) : reqs[i].kind = kind }

IsMarkerEntry(r) == "label" \in DOMAIN r /\ r.label = MARKER_LABEL

MarkerIdx(rs) == { j \in 1..Len(rs) : IsMarkerEntry(rs[j]) }

\* rs with the marker-labelled entries deleted, the rest in order
RECURSIVE WithoutMarker(_)
WithoutMarker(rs) ==
  IF rs = <<>> THEN <<>>
  ELSE IF IsMarkerEntry(Head(rs)) THEN WithoutMarker(Tail(rs))
  ELSE <<Head(rs)>> \o WithoutMarker(Tail(rs))

\* the collection of one direction as fetched by get_current_rules
Fetched(dir) == IF dir \in DOMAIN current_rules THEN current_rules[dir] ELSE <<>>

TargetIdx(data) == { i \in 1..Len(data) : data[i].label = FIREWALL_LABEL }

\* a list response whose data holds a firewall with the target label
HasTarget(resp) ==
  /\ resp.status = HTTP_OK
  /\ "data" \in DOMAIN resp
  /\ TargetIdx(resp.data) # {}

\* the 'pages' value a list response reports, a missing one counting as 1
Reported(resp) == IF "pages" \in DOMAIN resp THEN resp.pages ELSE 1

\* ------------------------------------------------------------------- C1
\* C1: the outbound collection of every PUT holds exactly one entry labelled
\* "allow-github-actions", and that entry is the static configuration (ACCEPT,
\* TCP, "80,443", the GitHub address list), whatever the fetched outbound
\* collection held.
C1_OneFreshMarker ==
  \A i \in ReqIdx("put") :
    LET out == reqs[i].body.outbound
    IN  /\ Cardinality(MarkerIdx(out)) = 1
        /\ \A j \in MarkerIdx(out) :
             /\ DOMAIN out[j] = {"label", "action", "protocol", "ports", "addresses"}
             /\ out[j].action = "ACCEPT"
             /\ out[j].protocol = "TCP"
             /\ out[j].ports = "80,443"
             /\ DOMAIN out[j].addresses = {"ipv4"}
             /\ out[j].addresses.ipv4 = GITHUB_IPS

\* a PUT was issued after an outbound collection with two stale marker
\* entries was fetched
C1_Witness ==
  /\ ReqIdx("put") # {}
  /\ Cardinality(MarkerIdx(Fetched("outbound"))) = 2
  /\ \A j \in MarkerIdx(Fetched("outbound")) : Fetched("outbound")[j].ports = "22"

\* ------------------------------------------------------------------- C2
\* C2: the inbound collection of every PUT holds no entry labelled
\* "allow-github-actions".
C2_NoMarkerInbound ==
  \A i \in ReqIdx("put") : MarkerIdx(reqs[i].body.inbound) = {}

\* a PUT was issued after an inbound collection with a marker entry was fetched
C2_Witness ==
  /\ ReqIdx("put") # {}
  /\ MarkerIdx(Fetched("inbound")) # {}

\* ------------------------------------------------------------------- C3
\* C3: the submitted inbound is the fetched inbound with the marker entries
\* deleted, and the submitted outbound minus its last entry is the fetched
\* outbound with the marker entries deleted; order and content are kept.
C3_FramePreserved ==
  \A i \in ReqIdx("put") :
    LET inb == reqs[i].body.inbound
        out == reqs[i].body.outbound
    IN  /\ inb = WithoutMarker(Fetched("inbound"))
        /\ Len(out) >= 1
        /\ SubSeq(out, 1, Len(out) - 1) = WithoutMarker(Fetched("outbound"))

\* a PUT was issued after fetching entries with no 'label' key and marker
\* entries in front of entries that survive
C3_Witness ==
  /\ ReqIdx("put") # {}
  /\ Fetched("inbound") = <<StaleRule, NoLabelRule>>
  /\ Fetched("outbound") = <<StaleRule, KeepRule>>

\* ------------------------------------------------------------------- C4
OnlyMatchOnLastPage ==
  /\ TargetIdx(listing[Len(listing)]) # {}
  /\ \A p \in 1..(Len(listing) - 1) : TargetIdx(listing[p]) = {}

EveryResponseReports(n) ==
  \A i \in ReqIdx("list") :
    /\ resps[i].status = HTTP_OK
    /\ "pages" \in DOMAIN resps[i]
    /\ resps[i].pages = n

\* C4: when the listing has N pages, every response reports pages = N and
\* the only firewall with the target label is on page N, the lookup issues
\* exactly the N requests page = 1, 2, ..., N, in that order, and returns the
\* matching ID.
C4_ExactlyNPages ==
  (OnlyMatchOnLastPage /\ EveryResponseReports(Len(listing))) =>
    /\ ReqIdx("list") = 1..Cardinality(ReqIdx("list"))
    /\ \A i \in ReqIdx("list") : reqs[i].arg = i
    /\ Cardinality(ReqIdx("list")) <= Len(listing)
    /\ pc # "lookup" =>
         /\ ReqIdx("list") = 1..Len(listing)
         /\ fw_id = listing[Len(listing)][Min(TargetIdx(listing[Len(listing)]))].id

\* the lookup has returned after scanning three pages, the match on the third
C4_Witness ==
  /\ Len(listing) = 3
  /\ OnlyMatchOnLastPage
  /\ EveryResponseReports(3)
  /\ pc = "fetch"
  /\ Len(reqs) = 3

\* ------------------------------------------------------------------- C5
NeverFound == \A i \in ReqIdx("list") : ~HasTarget(resps[i])

\* C5: as long as no list response held a firewall with the target label, no
\* get-rules and no put-rules request has been issued, and once the lookup
\* is over the process has exited with code 1.
C5_NotFoundExitsBeforeFetch ==
  NeverFound =>
    /\ ReqIdx("get") = {}
    /\ ReqIdx("put") = {}
    /\ pc \in {"lookup", "done"}
    /\ pc = "done" => exit_code = 1

\* three pages were scanned, all answered with success, none held the label
C5_Witness ==
  /\ NeverFound
  /\ pc = "done"
  /\ Len(reqs) = 3
  /\ \A i \in 1..Len(reqs) : resps[i].status = HTTP_OK

\* ------------------------------------------------------------------- C6
\* C6: a put-rules request answered with a non-success status is the last
\* request of the run, and the process has exited with code 1.
C6_PutFailureTerminal ==
  \A i \in ReqIdx("put") :
    resps[i].status # HTTP_OK =>
      /\ i = Len(reqs)
      /\ ReqIdx("put") = {i}
      /\ pc = "done"
      /\ exit_code = 1

\* a put-rules request was answered with a non-success status
C6_Witness ==
  \E i \in ReqIdx("put") : resps[i].status # HTTP_OK

\* ------------------------------------------------------------------- C7
Found == \E i \in ReqIdx("list") : HasTarget(resps[i])
GetSucceeded == \E i \in ReqIdx("get") : resps[i].status = HTTP_OK
PutSucceeded == \E i \in ReqIdx("put") : resps[i].status = HTTP_OK

\* C7: the exit code is 0 exactly when the lookup found the label and the
\* get-rules and put-rules requests succeeded, and 1 otherwise; a request
\* answered with a non-success status is the last one of the run.
C7_ExitCodes ==
  /\ pc # "done" => exit_code = -1
  /\ pc = "done" =>
       /\ exit_code \in {0, 1}
       /\ exit_code = 0 <=> (Found /\ GetSucceeded /\ PutSucceeded)
  /\ \A i \in 1..Len(reqs) :
       resps[i].status # HTTP_OK =>
         (i = Len(reqs) /\ pc = "done" /\ exit_code = 1)
  /\ (pc = "done" /\ ~Found) => Len(reqs) = Cardinality(ReqIdx("list"))

\* the lookup found the label and the get-rules request failed
C7_Witness ==
  /\ pc = "done"
  /\ exit_code = 1
  /\ Found
  /\ \E i \in ReqIdx("get") : resps[i].status # HTTP_OK

\* ------------------------------------------------------------------- C8
\* C8: the requests of a run are list-page requests, then at most one
\* get-rules request, then at most one put-rules request; the get-rules
\* request follows a list response that held the target label and carries the
\* ID found there; the put-rules request follows a successful get-rules
\* request and carries the same ID.
C8_FixedOrder ==
  LET L == ReqIdx("list")
      G == ReqIdx("get")
      U == ReqIdx("put")
  IN  /\ Cardinality(G) <= 1
      /\ Cardinality(U) <= 1
      /\ G = {} => (U = {} /\ L = 1..Len(reqs))
      /\ \A g \in G :
           /\ g > 1
           /\ L = 1..(g - 1)
           /\ HasTarget(resps[g - 1])
           /\ reqs[g].arg = resps[g - 1].data[Min(TargetIdx(resps[g - 1].data))].id
      /\ \A u \in U :
           /\ u = Len(reqs)
           /\ (u - 1) \in G
           /\ resps[u - 1].status = HTTP_OK
           /\ reqs[u].arg = reqs[u - 1].arg
      /\ pc \in {"transform", "submit"} => (GetSucceeded /\ U = {})
      /\ pc = "fetch" => (Found /\ G = {})

\* a full successful run: two list pages, the get, the put
C8_Witness ==
  /\ pc = "done"
  /\ exit_code = 0
  /\ Len(reqs) = 4
  /\ reqs[4].kind = "put"

\* ------------------------------------------------------------------- C9
\* C9: with a successful PUT stored as the whole rule set, every later
\* successful run submits the collections the run before it submitted, the
\* one marker rule being the last outbound entry.
C9_Idempotent ==
  \A k \in 2..Len(submitted) :
    /\ submitted[k] = submitted[k - 1]
    /\ MarkerIdx(submitted[k].outbound) = {Len(submitted[k].outbound)}

\* two successful runs, the first over a rule set with a stale marker rule
\* ahead of a rule that stays
C9_Witness ==
  /\ Len(submitted) = 2
  /\ submitted[1].outbound = <<KeepRule, new_rule>>
  /\ submitted[1].inbound = <<NoLabelRule>>

\* ------------------------------------------------------------------ C10
\* response i ends the loop: an error, a match, or the last page reported
Stops(i) ==
  \/ resps[i].status # HTTP_OK
  \/ HasTarget(resps[i])
  \/ i >= Reported(resps[i])

C10_LoopInv ==
  LET L == ReqIdx("list")
      n == Cardinality(ReqIdx("list"))
  IN  /\ L = 1..n
      /\ \A i \in L : reqs[i].arg = i
      /\ n >= 1 => \E i \in L : n <= Reported(resps[i])
      /\ \A i \in L : Stops(i) => (i = n /\ pc # "lookup")
      /\ \A i \in L :
           HasTarget(resps[i]) =>
             fw_id = resps[i].data[Min(TargetIdx(resps[i].data))].id
      /\ (n >= 1 /\ ~Stops(n)) => pc = "lookup"
      /\ pc = "lookup" => page = n + 1

\* C10: the pagination loop requests pages 1, 2, ... and never more pages
\* than the largest 'pages' value reported (a missing one counting as 1); it
\* ends at the first response that is an error, holds the target label (the
\* first such firewall of the page is returned) or is the last page reported,
\* and not before; and the loop always ends.
C10_LoopTerminates ==
  /\ []C10_LoopInv
  /\ (pc = "lookup") ~> (pc # "lookup")

\* the loop ended on page 2 of 3 reported, at the first of two matches
C10_Witness ==
  /\ pc = "fetch"
  /\ Len(reqs) = 2
  /\ "pages" \in DOMAIN resps[2]
  /\ resps[2].pages = 3
  /\ Cardinality(TargetIdx(resps[2].data)) = 2
====
